---- MODULE Spec2Model ----
(***************************************************************************)
(* Model of the recipe API server (src/api/src/routes/api.ts): the upload  *)
(* and result stores, the start-job handler with its fire-and-forget       *)
(* pipeline, the scripted event stream, and the text helpers the pipeline  *)
(* is built from.  Text is modelled character by character on strings.     *)
(***************************************************************************)
EXTENDS Integers, Sequences, FiniteSets, TLC

\* ------------------------------------------------------------------ bounds
\* uploads registered, jobs started, stream subscriptions opened, and requests
\* handled in all
MaxUploads == 1
MaxJobs == 2
MaxSubs == 2
MaxRequests == 3

\* ------------------------------------------------------- character helpers
Char(s, i) == SubSeq(s, i, i)

LowerLetters == {"a","b","c","d","e","f","g","h","i","j","k","l","m",
                 "n","o","p","q","r","s","t","u","v","w","x","y","z"}
UpperLetters == {"A","B","C","D","E","F","G","H","I","J","K","L","M",
                 "N","O","P","Q","R","S","T","U","V","W","X","Y","Z"}
Digits == {"0","1","2","3","4","5","6","7","8","9"}
Letters == LowerLetters \cup UpperLetters
\* \s of a JavaScript regular expression, restricted to the characters used
WhiteSpace == {" ", "\n", "\r", "\t"}

UpperOf(c) ==
  CASE c = "a" -> "A" [] c = "b" -> "B" [] c = "c" -> "C" [] c = "d" -> "D"
    [] c = "e" -> "E" [] c = "f" -> "F" [] c = "g" -> "G" [] c = "h" -> "H"
    [] c = "i" -> "I" [] c = "j" -> "J" [] c = "k" -> "K" [] c = "l" -> "L"
    [] c = "m" -> "M" [] c = "n" -> "N" [] c = "o" -> "O" [] c = "p" -> "P"
    [] c = "q" -> "Q" [] c = "r" -> "R" [] c = "s" -> "S" [] c = "t" -> "T"
    [] c = "u" -> "U" [] c = "v" -> "V" [] c = "w" -> "W" [] c = "x" -> "X"
    [] c = "y" -> "Y" [] c = "z" -> "Z" [] OTHER -> c

LowerOf(c) ==
  CASE c = "A" -> "a" [] c = "B" -> "b" [] c = "C" -> "c" [] c = "D" -> "d"
    [] c = "E" -> "e" [] c = "F" -> "f" [] c = "G" -> "g" [] c = "H" -> "h"
    [] c = "I" -> "i" [] c = "J" -> "j" [] c = "K" -> "k" [] c = "L" -> "l"
    [] c = "M" -> "m" [] c = "N" -> "n" [] c = "O" -> "o" [] c = "P" -> "p"
    [] c = "Q" -> "q" [] c = "R" -> "r" [] c = "S" -> "s" [] c = "T" -> "t"
    [] c = "U" -> "u" [] c = "V" -> "v" [] c = "W" -> "w" [] c = "X" -> "x"
    [] c = "Y" -> "y" [] c = "Z" -> "z" [] OTHER -> c

Drop(s, k) == SubSeq(s, k + 1, Len(s))
Take(s, k) == SubSeq(s, 1, k)
Min(S) == CHOOSE m \in S : \A k \in S : m <= k
Max(S) == CHOOSE m \in S : \A k \in S : m >= k

\* String.prototype.toLowerCase; the recursion halves the string
RECURSIVE ToLower(_)
ToLower(s) ==
  IF Len(s) = 0 THEN ""
  ELSE IF Len(s) = 1 THEN LowerOf(s)
  ELSE LET h == Len(s) \div 2 IN ToLower(Take(s, h)) \o ToLower(Drop(s, h))

\* s.startsWith(p) at position i (1-based)
HasAt(s, i, p) == i >= 1 /\ i + Len(p) - 1 <= Len(s) /\ SubSeq(s, i, i + Len(p) - 1) = p
HasAtCI(s, i, p) ==
  i >= 1 /\ i + Len(p) - 1 <= Len(s) /\ ToLower(SubSeq(s, i, i + Len(p) - 1)) = ToLower(p)

\* index of the first occurrence of p in s at or after i, 0 when there is none
IndexFrom(s, p, i) ==
  LET at == {k \in i..(Len(s) - Len(p) + 1) : HasAt(s, k, p)} IN
    IF at = {} THEN 0 ELSE Min(at)

Includes(s, p) == IndexFrom(s, p, 1) > 0

\* index of the first character of s that is in cs, 0 when there is none
FirstIn(s, cs) ==
  LET at == {k \in 1..Len(s) : Char(s, k) \in cs} IN IF at = {} THEN 0 ELSE Min(at)

\* length of the longest prefix, and suffix, of s made of characters of cs
PrefixLen(s, cs) ==
  LET at == {k \in 1..Len(s) : Char(s, k) \notin cs} IN IF at = {} THEN Len(s) ELSE Min(at) - 1
SuffixLen(s, cs) ==
  LET at == {k \in 1..Len(s) : Char(s, k) \notin cs} IN IF at = {} THEN Len(s) ELSE Len(s) - Max(at)

\* String.prototype.trim
TrimLeft(s) == Drop(s, PrefixLen(s, WhiteSpace))
TrimRight(s) == Take(s, Len(s) - SuffixLen(s, WhiteSpace))
Trim(s) == TrimRight(TrimLeft(s))

\* s.replace(/\s+/g, ' '): one step per run of white space
RECURSIVE CollapseWs(_)
CollapseWs(s) ==
  LET k == FirstIn(s, WhiteSpace) IN
    IF k = 0 THEN s
    ELSE Take(s, k - 1) \o " " \o CollapseWs(TrimLeft(Drop(s, k - 1)))

\* Array.prototype.join
RECURSIVE Join(_, _)
Join(parts, sep) ==
  IF parts = <<>> THEN ""
  ELSE IF Len(parts) = 1 THEN parts[1]
  ELSE parts[1] \o sep \o Join(Tail(parts), sep)

\* s.split(/\r?\n/): one step per line
RECURSIVE SplitLines(_)
SplitLines(s) ==
  LET k == IndexFrom(s, "\n", 1)
      cr == IF k >= 2 /\ Char(s, k - 1) = "\r" THEN 1 ELSE 0
  IN IF k = 0 THEN <<s>>
     ELSE <<Take(s, k - 1 - cr)>> \o SplitLines(Drop(s, k))

RECURSIVE SelectNonEmpty(_)
SelectNonEmpty(parts) ==
  IF parts = <<>> THEN <<>>
  ELSE IF parts[1] = "" THEN SelectNonEmpty(Tail(parts))
  ELSE <<parts[1]>> \o SelectNonEmpty(Tail(parts))

MapTrim(parts) == [k \in 1..Len(parts) |-> Trim(parts[k])]

\* ----------------------------------------------------------- Text Utilities
\* s.replace(/pat/g, rep) for a literal pattern: one step per occurrence
RECURSIVE ReplaceAll(_, _, _)
ReplaceAll(s, pat, rep) ==
  LET k == IndexFrom(s, pat, 1) IN
    IF k = 0 THEN s
    ELSE Take(s, k - 1) \o rep \o ReplaceAll(Drop(s, k - 1 + Len(pat)), pat, rep)

\* decodeHtml (lines 201-208): five replacements, one after the other
decodeHtml(s) ==
  ReplaceAll(ReplaceAll(ReplaceAll(ReplaceAll(ReplaceAll(s,
    "&amp;", "&"), "&lt;", "<"), "&gt;", ">"), "&quot;", "\""), "&#39;", "'")

\* line.replace(/<[^>]+>/g, '') (line 192): one step per tag
RECURSIVE StripTags(_)
StripTags(s) ==
  LET at == {k \in 1..Len(s) : Char(s, k) = "<" /\ IndexFrom(s, ">", k + 2) > 0} IN
    IF at = {} THEN s
    ELSE Take(s, Min(at) - 1) \o StripTags(Drop(s, IndexFrom(s, ">", Min(at) + 2)))

\* the lines vttToPlainText drops (line 191)
IsVttNoise(line) ==
  \/ line = ""
  \/ HasAtCI(line, 1, "WEBVTT")
  \/ Includes(line, "-->")
  \/ PrefixLen(line, Digits) = Len(line)

RECURSIVE VttKeep(_)
VttKeep(lines) ==
  IF lines = <<>> THEN <<>>
  ELSE IF IsVttNoise(lines[1]) THEN VttKeep(Tail(lines))
  ELSE <<StripTags(lines[1])>> \o VttKeep(Tail(lines))

\* vttToPlainText (lines 186-195)
vttToPlainText(vtt) == Join(VttKeep(SplitLines(vtt)), " ")

\* Array.from(xml.matchAll(/<text[^>]*>([\s\S]*?)<\/text>/g)).map(m => decodeHtml(m[1]))
\* (lines 163, 179)
RECURSIVE TextItems(_)
TextItems(xml) ==
  LET open == IndexFrom(xml, "<text", 1)
      gt == IF open = 0 THEN 0 ELSE IndexFrom(xml, ">", open + 5)
      close == IF gt = 0 THEN 0 ELSE IndexFrom(xml, "</text>", gt + 1)
  IN IF close = 0 THEN <<>>
     ELSE <<decodeHtml(SubSeq(xml, gt + 1, close - 1))>>
            \o TextItems(SubSeq(xml, close + 7, Len(xml)))

\* items.join(' ').replace(/\s+/g, ' ').trim() (lines 164, 180)
JoinItems(items) == Trim(CollapseWs(Join(items, " ")))

\* JSON.parse('"' + body + '"'): the value of a JSON string literal, or a
\* SyntaxError.  The escapes \b and \uXXXX are outside the modelled alphabet.
\* One step per escape sequence.
RECURSIVE JsonStringBody(_)
JsonStringBody(body) ==
  LET k == FirstIn(body, {"\"", "\\", "\n", "\r", "\t", "\f"}) IN
    IF k = 0 THEN [ok |-> TRUE, value |-> body]
    ELSE IF Char(body, k) # "\\" \/ k = Len(body) THEN [ok |-> FALSE, value |-> ""]
    ELSE LET e == Char(body, k + 1)
             r == JsonStringBody(Drop(body, k + 1))
             c == CASE e = "n" -> "\n" [] e = "t" -> "\t" [] e = "r" -> "\r"
                    [] e = "f" -> "\f" [] OTHER -> e
         IN IF e \in {"\"", "\\", "/", "n", "t", "r", "f"} /\ r.ok
            THEN [ok |-> TRUE, value |-> Take(body, k - 1) \o c \o r.value]
            ELSE [ok |-> FALSE, value |-> ""]

\* line 134: the two replacements, then JSON.parse
ParseShortDescription(raw) ==
  JsonStringBody(ReplaceAll(ReplaceAll(raw, "\\n", "\n"), "\\\"", "\""))

\* ------------------------------------------------------ Recipe Synthesizer
\* capitalize (line 270)
capitalize(s) == IF s = "" THEN "" ELSE UpperOf(Head(s)) \o Tail(s)

\* a final map that leaves each step as it is
KeepFirst(s) == s

\* s.replace(/^([a-z])/, m => m.toUpperCase()) (line 267)
UpperFirstLower(s) ==
  IF s # "" /\ Head(s) \in LowerLetters THEN UpperOf(Head(s)) \o Tail(s) ELSE s

\* s.replace(/^\d+[:\.)]\s*/, '') (line 263)
StripStepNumber(s) ==
  LET d == PrefixLen(s, Digits) IN
    IF d > 0 /\ d < Len(s) /\ Char(s, d + 1) \in {":", ".", ")"}
    THEN TrimLeft(Drop(s, d + 1))
    ELSE s

\* the cue words of the regular expression of line 260
CueWords == <<"add", "mix", "stir", "combine", "cook", "bake", "boil", "simmer", "fry",
              "heat", "season", "chop", "slice", "blend", "pour", "spread", "press",
              "marinate", "assemble", "serve">>

\* cues.test(s): an unanchored, case-insensitive match of any cue word
HasCue(s) ==
  \E k \in 1..Len(CueWords) : \E i \in 1..Len(s) : HasAtCI(s, i, CueWords[k])

\* split(/(?<=[.!?])\s+/) of a text whose white space is already collapsed:
\* one step per sentence
RECURSIVE SplitSentences(_)
SplitSentences(s) ==
  LET at == {k \in 2..Len(s) : Char(s, k) \in WhiteSpace /\ Char(s, k - 1) \in {".", "!", "?"}} IN
    IF at = {} THEN <<s>>
    ELSE <<Take(s, Min(at) - 1)>> \o SplitSentences(TrimLeft(Drop(s, Min(at) - 1)))

\* lines 255-259
Sentences(text) == SelectNonEmpty(MapTrim(SplitSentences(CollapseWs(text))))

MaxSteps == 12

\* the loop of lines 262-265 without the test of the cue words
PickStepsUnfiltered(sentences, picked) ==
  LET n == IF Len(sentences) < MaxSteps THEN Len(sentences) ELSE MaxSteps IN
    picked \o [k \in 1..n |-> capitalize(StripStepNumber(sentences[k]))]

\* the loop of lines 262-265
RECURSIVE PickSteps(_, _)
PickSteps(sentences, picked) ==
  IF sentences = <<>> THEN picked
  ELSE LET s == sentences[1]
           p == IF HasCue(s) THEN Append(picked, capitalize(StripStepNumber(s))) ELSE picked
       IN IF Len(p) >= MaxSteps THEN p ELSE PickSteps(Tail(sentences), p)

\* extractSteps (lines 252-268)
extractSteps(text) ==
  IF text = "" THEN <<"Review ingredients and steps from the video.">>
  ELSE LET sentences == Sentences(text)
           picked == PickSteps(sentences, <<>>)
           final == IF Len(picked) = 0
                    THEN <<IF sentences # <<>> /\ sentences[1] # ""
                           THEN sentences[1] ELSE "Follow the video steps.">>
                    ELSE picked
       IN [k \in 1..Len(final) |-> UpperFirstLower(final[k])]

\* \b after a header word that starts at position 1 and has length k
WordEndsAt(s, k) == k = Len(s) \/ Char(s, k + 1) \notin (Letters \cup Digits \cup {"_"})

\* /^ingredients\b|^ingredientes\b/i (line 232)
IsIngredientsHeader(l) ==
  \/ HasAtCI(l, 1, "ingredients") /\ WordEndsAt(l, 11)
  \/ HasAtCI(l, 1, "ingredientes") /\ WordEndsAt(l, 12)

\* /^\s*(instructions|method|directions)\b/i (line 237)
IsInstructionsHeader(l) ==
  LET t == TrimLeft(l) IN
    \/ HasAtCI(t, 1, "instructions") /\ WordEndsAt(t, 12)
    \/ HasAtCI(t, 1, "method") /\ WordEndsAt(t, 6)
    \/ HasAtCI(t, 1, "directions") /\ WordEndsAt(t, 10)

\* /^\s*-{2,}\s*$/ (line 236)
IsSeparator(l) ==
  LET t == Trim(l) IN Len(t) >= 2 /\ PrefixLen(t, {"-"}) = Len(t)

\* /[a-zA-Z]/ (line 238)
HasLetter(l) == \E i \in 1..Len(l) : Char(l, i) \in Letters

\* Number(m[1]) as its decimal text: leading zeros of the integer part and
\* trailing zeros of the fraction are not kept
StripLeadingZeros(s) == Drop(s, Min({PrefixLen(s, {"0"}), Len(s) - 1}))
StripTrailingZeros(s) == Take(s, Len(s) - SuffixLen(s, {"0"}))
NumberOf(s) ==
  LET dot == IndexFrom(s, ".", 1)
      int == StripLeadingZeros(IF dot = 0 THEN s ELSE Take(s, dot - 1))
      frac == IF dot = 0 THEN "" ELSE StripTrailingZeros(Drop(s, dot))
  IN IF frac = "" THEN int ELSE int \o "." \o frac

\* line.match(/^([0-9]+(?:\.[0-9]+)?)\s*([a-zA-Z]+)?\s*(.+)$/) (line 240), with the
\* back-tracking that lets (.+) take the last letter of a unit that ends the line
MatchQuantity(line) ==
  LET d == PrefixLen(line, Digits)
      f == IF d > 0 /\ d < Len(line) /\ Char(line, d + 1) = "."
           THEN PrefixLen(Drop(line, d + 1), Digits) ELSE 0
      nlen == IF f > 0 THEN d + 1 + f ELSE d
      rest == TrimLeft(Drop(line, nlen))
      u == PrefixLen(rest, Letters)
      item == TrimLeft(Drop(rest, u))
  IN IF d = 0 THEN [matched |-> FALSE, quantity |-> "", unit |-> "", item |-> ""]
     ELSE IF item # ""
       THEN [matched |-> TRUE, quantity |-> Take(line, nlen), unit |-> Take(rest, u), item |-> item]
     ELSE IF u >= 1
       THEN [matched |-> TRUE, quantity |-> Take(line, nlen),
             unit |-> Take(rest, u - 1), item |-> Drop(rest, u - 1)]
     ELSE IF f >= 2
       \* nothing follows the number: its last digit is given back to (.+)
       THEN [matched |-> TRUE, quantity |-> Take(line, nlen - 1), unit |-> "",
             item |-> Drop(line, nlen - 1)]
     ELSE IF f = 1
       THEN [matched |-> TRUE, quantity |-> Take(line, d), unit |-> "", item |-> Drop(line, d)]
     ELSE IF d >= 2
       THEN [matched |-> TRUE, quantity |-> Take(line, d - 1), unit |-> "", item |-> Drop(line, d - 1)]
     ELSE [matched |-> FALSE, quantity |-> "", unit |-> "", item |-> ""]

\* line.replace(/^[\-•\*]\s*/, '') (line 245)
StripBullet(line) ==
  IF line # "" /\ Head(line) \in {"-", "*"} THEN TrimLeft(Tail(line)) ELSE line

\* one pushed item (lines 240-246); a missing quantity or unit is null
IngredientOf(line) ==
  LET m == MatchQuantity(line) IN
    IF m.matched
    THEN [hasQuantity |-> TRUE, quantity |-> NumberOf(m.quantity),
          hasUnit |-> m.unit # "", unit |-> m.unit, item |-> m.item]
    ELSE [hasQuantity |-> FALSE, quantity |-> "", hasUnit |-> FALSE, unit |-> "",
          item |-> StripBullet(line)]

MaxIngredients == 50

\* the loop of lines 235-248
RECURSIVE ScanIngredients(_, _)
ScanIngredients(candidates, items) ==
  IF candidates = <<>> THEN items
  ELSE LET line == candidates[1] IN
    IF IsSeparator(line) THEN ScanIngredients(Tail(candidates), items)
    ELSE IF IsInstructionsHeader(line) THEN items
    ELSE IF ~HasLetter(line) THEN ScanIngredients(Tail(candidates), items)
    ELSE LET next == Append(items, IngredientOf(line)) IN
      IF Len(next) >= MaxIngredients THEN next ELSE ScanIngredients(Tail(candidates), next)

\* a findIndex that matches no line
FindHeaderMissed(lines, k) == 0

\* lines.findIndex(...) (line 232), 0 when no line matches
RECURSIVE FindHeader(_, _)
FindHeader(lines, k) ==
  IF k > Len(lines) THEN 0
  ELSE IF IsIngredientsHeader(lines[k]) THEN k ELSE FindHeader(lines, k + 1)

\* extractIngredients (lines 226-250)
extractIngredients(description) ==
  LET lines == SelectNonEmpty(MapTrim(SplitLines(description)))
      startIdx == FindHeader(lines, 1)
      candidates == IF startIdx >= 1 THEN SubSeq(lines, startIdx + 1, Len(lines)) ELSE lines
  IN ScanIngredients(candidates, <<>>)

\* synthesizeRecipe with the steps numbered by idx instead of idx + 1
synthesizeRecipeFromZero(title, description, transcriptText) ==
  LET steps == extractSteps(IF transcriptText # "" THEN transcriptText ELSE description) IN
    [title |-> IF title # "" THEN title ELSE "Recipe",
     servings |-> 4,
     time |-> [total |-> "-", active |-> "-"],
     ingredients |-> extractIngredients(description),
     equipment |-> <<>>,
     steps |-> [idx \in 1..Len(steps) |-> [n |-> idx - 1, text |-> steps[idx]]],
     notes |-> <<>>,
     allergens |-> <<>>]

\* synthesizeRecipe (lines 210-224); the recipe is built from three strings.
\* "-" stands for the dash character of the time placeholders (lines 215, 287).
synthesizeRecipe(title, description, transcriptText) ==
  LET steps == extractSteps(IF transcriptText # "" THEN transcriptText ELSE description) IN
    [title |-> IF title # "" THEN title ELSE "Recipe",
     servings |-> 4,
     time |-> [total |-> "-", active |-> "-"],
     ingredients |-> extractIngredients(description),
     equipment |-> <<>>,
     steps |-> [idx \in 1..Len(steps) |-> [n |-> idx, text |-> steps[idx]]],
     notes |-> <<>>,
     allergens |-> <<>>]

\* a fallback recipe that leaves the title empty
fallbackRecipeUntitled(message) ==
  [title |-> "",
   servings |-> 2,
   time |-> [total |-> "-", active |-> "-"],
   ingredients |-> <<>>,
   equipment |-> <<>>,
   steps |-> <<[n |-> 1, text |-> message]>>,
   notes |-> <<>>,
   allergens |-> <<>>]

\* fallbackRecipe (lines 284-295)
fallbackRecipe(message) ==
  [title |-> "Recipe",
   servings |-> 2,
   time |-> [total |-> "-", active |-> "-"],
   ingredients |-> <<>>,
   equipment |-> <<>>,
   steps |-> <<[n |-> 1, text |-> message]>>,
   notes |-> <<>>,
   allergens |-> <<>>]

\* ---------------------------------------------------------------- Renderers
\* `- ${i.quantity ?? ''} ${i.unit ?? ''} ${i.item}`.trim() (lines 273, 279)
IngredientLine(i) ==
  Trim("- " \o (IF i.hasQuantity THEN i.quantity ELSE "") \o " "
            \o (IF i.hasUnit THEN i.unit ELSE "") \o " " \o i.item)

IngredientLines(r) ==
  Join([k \in 1..Len(r.ingredients) |-> IngredientLine(r.ingredients[k])], "\n")

\* `${s.n}. ${s.text}` joined by new lines (lines 274, 280)
StepLines(r) ==
  Join([k \in 1..Len(r.steps) |-> ToString(r.steps[k].n) \o ". " \o r.steps[k].text], "\n")

\* renderMarkdown (lines 272-276)
renderMarkdown(r) ==
  "# " \o r.title \o "\n\n**Servings:** " \o ToString(r.servings)
       \o "\n\n\n## Ingredients\n" \o IngredientLines(r)
       \o "\n\n## Instructions\n" \o StepLines(r) \o "\n"

\* renderTxt (lines 278-282)
renderTxt(r) ==
  r.title \o "\nServings: " \o ToString(r.servings)
          \o "\n\nIngredients\n" \o IngredientLines(r)
          \o "\n\nInstructions\n" \o StepLines(r) \o "\n"

\* ----------------------------------------------------------- fetched pages
\* A value read from the parsed player response: a string or a number
Str(s) == [t |-> "string", s |-> s, n |-> 0]
Num(n) == [t |-> "number", s |-> "", n |-> n]
\* JavaScript truthiness of such a value
Truthy(v) == IF v.t = "string" THEN v.s # "" ELSE v.n # 0

Track(code, url) == [isNull |-> FALSE, languageCode |-> code, baseUrl |-> url]
NullTrack == [isNull |-> TRUE, languageCode |-> "", baseUrl |-> ""]

\* What the patterns of lines 125-132 and 147-149 find in a fetched page:
\*   pr: "nomatch" (no ytInitialPlayerResponse), "invalid" (safeJson gives null), "object"
\*   title, shortDescription: videoDetails fields of the parsed object
\*   captionTracks: the caption track list of the parsed object (<<>> when there is none)
\*   ogTitle: the og:title meta content ("" when no tag matches)
\*   rawShortDescription: the escaped "shortDescription" capture ("" when no match)
Page(pr, title, desc, tracks, og, raw) ==
  [pr |-> pr, title |-> title, shortDescription |-> desc, captionTracks |-> tracks,
   ogTitle |-> og, rawShortDescription |-> raw]

PageFull ==
  Page("object", "Pasta", Str("Ingredients\n2 cups flour\nInstructions\nMix well."),
       <<Track("fr", "https://cc.example/fr"), Track("en-US", "https://cc.example/en?k=1")>>,
       "Pasta - Video", "")
PageMeta == Page("invalid", "", Str(""), <<>>, "Soup", "1 onion")
PageBare == Page("nomatch", "", Str(""), <<>>, "", "")
PageEscaped == Page("nomatch", "", Str(""), <<>>, "Soup", "Ingredients\\n1 onion")
PageNumeric == Page("object", "Pasta", Num(7), <<Track("fr", "https://cc.example/en?k=1")>>, "", "")
PageNullTrack == Page("object", "", Str(""), <<NullTrack>>, "", "")
PageNoBaseUrl == Page("object", "", Str(""), <<Track("en", "")>>, "", "")

Pages == {PageFull, PageMeta, PageBare, PageEscaped, PageNumeric}
WatchPages == {PageFull, PageBare, PageNumeric, PageNullTrack, PageNoBaseUrl}

\* caption responses: ok flag and body
Response(ok, body) == [ok |-> ok, body |-> body]
VttResponses ==
  {Response(TRUE, "WEBVTT\n\n1\n00:01 --> 00:02\n<c>Add</c> flour.\n"),
   Response(TRUE, "WEBVTT\n\n"), Response(FALSE, "")}
XmlResponses ==
  {Response(TRUE, "<text start=\"0\">Mix &amp; stir.</text><text>Serve warm.</text>"),
   Response(TRUE, "<transcript/>"), Response(TRUE, "<text"), Response(FALSE, "")}

\* what the caption parsers make of a response: the ok flag, the merged VTT text
\* (lines 156-157), xml.includes('<text') (line 178) and the text items (163, 179)
ParseCaption(r) ==
  [ok |-> r.ok, merged |-> vttToPlainText(r.body), hasText |-> Includes(r.body, "<text"),
   items |-> TextItems(r.body)]
VttOutcomes == {ParseCaption(r) : r \in VttResponses}
XmlOutcomes == {ParseCaption(r) : r \in XmlResponses}

\* ----------------------------------------------------------- Source Resolver
\* fetchYouTubePage after the page text has arrived (lines 125-137); raised is
\* the SyntaxError of the unguarded JSON.parse of line 134
ResolvePage(page) ==
  LET hasPr == page.pr = "object"
      prTitle == IF hasPr THEN page.title ELSE ""
      prDesc == IF hasPr /\ Truthy(page.shortDescription) THEN page.shortDescription ELSE Str("")
      title == IF prTitle # "" THEN prTitle
               ELSE IF page.ogTitle # "" THEN page.ogTitle ELSE "Recipe"
      parsed == ParseShortDescription(page.rawShortDescription)
  IN IF Truthy(prDesc) \/ page.rawShortDescription = ""
     THEN [raised |-> FALSE, title |-> title, description |-> prDesc]
     ELSE IF parsed.ok
     THEN [raised |-> FALSE, title |-> title, description |-> Str(parsed.value)]
     ELSE [raised |-> TRUE, title |-> "", description |-> Str("")]

\* -------------------------------------------------------- Transcript Retriever
IdChars == Letters \cup Digits \cup {"_", "-"}

\* url.match(/[?&]v=([a-zA-Z0-9_-]{6,})/)?.[1] (lines 141-142), "" when no match
VideoId(url) ==
  LET at == {k \in 1..Len(url) : /\ Char(url, k) \in {"?", "&"}
                                 /\ HasAt(url, k + 1, "v=")
                                 /\ PrefixLen(Drop(url, k + 2), IdChars) >= 6} IN
    IF at = {} THEN ""
    ELSE SubSeq(url, Min(at) + 3, Min(at) + 2 + PrefixLen(Drop(url, Min(at) + 2), IdChars))

\* tracks.find(t => /^(prefix|prefix-)/i.test(t.languageCode)) (line 151): the index
\* found (0 for none); reading languageCode of a null entry throws
RECURSIVE FindTrack(_, _, _)
FindTrack(tracks, prefix, k) ==
  IF k > Len(tracks) THEN [raised |-> FALSE, idx |-> 0]
  ELSE IF tracks[k].isNull THEN [raised |-> TRUE, idx |-> 0]
  ELSE IF HasAtCI(tracks[k].languageCode, 1, prefix) THEN [raised |-> FALSE, idx |-> k]
  ELSE FindTrack(tracks, prefix, k + 1)

\* lines 149-152: the base URL of the preferred track; "" when the primary path
\* has no track to fetch; raised when the selection throws
PreferredTrack(page) ==
  LET tracks == IF page.pr = "object" THEN page.captionTracks ELSE <<>>
      en == FindTrack(tracks, "en", 1)
      es == FindTrack(tracks, "es", 1)
  IN IF Len(tracks) = 0 THEN [raised |-> FALSE, baseUrl |-> ""]
     ELSE IF en.raised THEN [raised |-> TRUE, baseUrl |-> ""]
     ELSE IF en.idx > 0 THEN [raised |-> FALSE, baseUrl |-> tracks[en.idx].baseUrl]
     ELSE IF es.idx > 0 THEN [raised |-> FALSE, baseUrl |-> tracks[es.idx].baseUrl]
     ELSE [raised |-> FALSE, baseUrl |-> tracks[1].baseUrl]

PageOutcomes == {ResolvePage(page) : page \in Pages}
TrackOutcomes == {PreferredTrack(page) : page \in WatchPages}

\* line 153
VttUrl(baseUrl) == baseUrl \o (IF Includes(baseUrl, "?") THEN "&" ELSE "?") \o "fmt=vtt"

\* line 171
langs == <<"en", "en-US", "en-GB", "es", "es-419">>

\* ------------------------------------------------------------------- state
VARIABLES
  uploads,     \* the uploads map (line 14): upload id k is 'upl_' + the k-th UUID
  jobs,        \* one record per allocated job id: the position of its async pipeline
  jobResults,  \* the jobResults map (line 16)
  writes,      \* number of jobResults.set calls made for each job id
  subs,        \* one record per event-stream subscription (lines 84-98)
  reply,       \* the response of the last request handler that answered
  nreq,        \* number of requests handled so far
  client       \* the state of the bundled client's Home component (lines 324-428)

vars == <<uploads, jobs, jobResults, writes, subs, reply, nreq, client>>

\* job ids a request can name: the allocated ones and one that is never allocated
JobIdSpace == 1..(MaxJobs + 1)
\* upload ids a request can name, likewise
UploadIdSpace == 1..(MaxUploads + 1)

NoResult == [present |-> FALSE]
JobResult(recipe, md, txt) ==
  [present |-> TRUE, recipe_json |-> recipe, markdown |-> md, txt |-> txt]

\* line 70
FailureResult == JobResult(fallbackRecipe("Failed to extract content"), "# Error", "Error")
\* line 74
NotImplementedResult ==
  JobResult(fallbackRecipe("File processing not implemented"), "# Pending", "Pending")

\* a response: the handler, the HTTP status, the id it allocated (0 for none),
\* the JobResult of a get-recipe answer, the state and pct of a status answer
Reply(op, status, id, body) ==
  [op |-> op, status |-> status, id |-> id, body |-> body, state |-> "", pct |-> 0]
NoReply == Reply("none", 0, 0, NoResult)

\* the pipeline of job j is suspended at the fetch named by pc:
\*   "page" (line 122), "watch" (146), "vtt" (154), "xml" (160), "legacy" (175);
\*   "synth": tryFetchYouTubeTranscript has returned and line 64 resumes;
\*   "none": no pipeline was launched; "done": the async function has returned.
\* url, title, description, baseUrl (preferred.baseUrl), lang (the position in
\* langs) and transcript (transcriptText) are the locals alive at that point.
\* The other fields record what has happened:
\*   source: the source_type of the upload record start-job found, "unknown"
\*     when uploads.get gave undefined
\*   trFetched: tryFetchYouTubeTranscript has issued a fetch
\*   trReturned: it has returned; lang is then Len(langs) + 1 when the loop of
\*     lines 172-182 ran to its end, 0 otherwise
\*   raisedAt: the component whose exception reached the catch of line 69
NewJob(pc, source, url) ==
  [pc |-> pc, source |-> source, url |-> url, title |-> "", description |-> Str(""),
   baseUrl |-> "", lang |-> 0, trFetched |-> FALSE, trReturned |-> FALSE,
   transcript |-> "", raisedAt |-> ""]

\* the Home component after its first render (lines 325-333) and the locals of
\* handleSubmit: the payload (line 352), the upload id and the job id it was
\* answered, the EventSource ("none", "open", "closed"), the number of stream
\* events handled, whether the status interval is set, the status requests
\* sent and not yet answered, the status requests sent so far, where
\* handleSubmit or tryFetch is waiting, and the attempt of tryFetch
IdleClient ==
  [state |-> "idle", recipe |-> NoResult,
   payload |-> [source_type |-> "", size_bytes |-> 0, source_url |-> ""],
   uploadId |-> 0, jobId |-> 0, es |-> "none", seen |-> 0, poll |-> FALSE,
   asked |-> 0, polls |-> 0, phase |-> "idle", attempt |-> 0]

Init ==
  /\ uploads = <<>>
  /\ jobs = <<>>
  /\ jobResults = [j \in JobIdSpace |-> NoResult]
  /\ writes = [j \in JobIdSpace |-> 0]
  /\ subs = <<>>
  /\ reply = NoReply
  /\ nreq = 0
  /\ client = IdleClient

\* ------------------------------------------------------- Upload Registration
\* z.string().url() (line 30): an http(s) scheme followed by a host
WellFormedUrl(s) ==
  \/ HasAt(s, 1, "http://") /\ Len(s) > 7
  \/ HasAt(s, 1, "https://") /\ Len(s) > 8

UrlWithId == "https://www.youtube.com/watch?v=abc123xyz"
UrlNoId == "https://example.com/clip?v=abc"

\* request bodies of create-upload; source_url "" stands for an absent field
Descriptor(type, size, url) == [source_type |-> type, size_bytes |-> size, source_url |-> url]
Descriptors ==
  {Descriptor("file", 1, ""), Descriptor("file", 0, ""), Descriptor("file", 1, UrlWithId),
   Descriptor("url", 0, UrlWithId), Descriptor("url", 0, UrlNoId),
   Descriptor("url", -1, UrlWithId), Descriptor("url", 0, "not a url"),
   Descriptor("url", 0, ""), Descriptor("other", 1, UrlWithId)}

\* CreateUploadReq.safeParse (lines 20-32, 35): the parsed data, unknown keys stripped
ParseUpload(body) ==
  IF body.source_type = "file" /\ body.size_bytes > 0
  THEN [success |-> TRUE, data |-> Descriptor("file", body.size_bytes, "")]
  ELSE IF body.source_type = "url" /\ body.size_bytes >= 0 /\ WellFormedUrl(body.source_url)
  THEN [success |-> TRUE, data |-> body]
  ELSE [success |-> FALSE, data |-> body]

\* a router that takes a request only when no pipeline is waiting for a fetch
AcceptWhenIdle ==
  /\ \A j \in 1..Len(jobs) : jobs[j].pc \in {"none", "done"}
  /\ nreq < MaxRequests
  /\ nreq' = nreq + 1

\* one more request reaches the router
Accept ==
  /\ nreq < MaxRequests
  /\ nreq' = nreq + 1

\* create-upload with the id allocated and the record stored before the body is
\* validated
CreateUploadStoresFirst(body) ==
  /\ Accept
  /\ Len(uploads) < MaxUploads
  /\ uploads' = Append(uploads, body)
  /\ reply' = IF ParseUpload(body).success
              THEN Reply("create-upload", 200, Len(uploads) + 1, NoResult)
              ELSE Reply("create-upload", 400, 0, NoResult)
  /\ UNCHANGED <<jobs, jobResults, writes, subs>>

\* router.post('/create-upload') (lines 34-50)
CreateUpload(body) ==
  LET parse == ParseUpload(body) IN
    /\ Accept
    /\ IF ~parse.success
       THEN /\ reply' = Reply("create-upload", 400, 0, NoResult)
            /\ UNCHANGED uploads
       ELSE /\ Len(uploads) < MaxUploads
            /\ uploads' = Append(uploads, parse.data)
            /\ reply' = Reply("create-upload", 200, Len(uploads) + 1, NoResult)
    /\ UNCHANGED <<jobs, jobResults, writes, subs>>

\* ----------------------------------------------------------- Job Orchestrator
\* jobResults.set(job_id, result)
Store(j, result) ==
  /\ jobResults' = [jobResults EXCEPT ![j] = result]
  /\ writes' = [writes EXCEPT ![j] = @ + 1]

\* the record of a job whose async function has returned: its locals are gone;
\* stage names the component whose exception reached the catch of line 69 ("" for
\* none)
Finished(job, stage) ==
  [NewJob("done", job.source, "") EXCEPT !.raisedAt = stage]

\* the record of a job whose Transcript Retriever has returned transcript, from
\* line 183 (exhausted) or from an earlier return: the async function resumes
\* after the await of line 64
TranscriptReturned(job, transcript, exhausted) ==
  [job EXCEPT !.pc = "synth", !.trReturned = TRUE, !.transcript = transcript,
              !.lang = IF exhausted THEN Len(langs) + 1 ELSE 0]

\* a catch block that swallows the exception and stores nothing
CatchFailureNoStore(j, job, stage) ==
  /\ jobs' = [jobs EXCEPT ![j] = Finished(job, stage)]
  /\ UNCHANGED <<jobResults, writes>>

\* the catch block (lines 69-71) after an exception of component stage, then the
\* return of the async function; job is the record of job j at the throw
CatchFailure(j, job, stage) ==
  /\ Store(j, FailureResult)
  /\ jobs' = [jobs EXCEPT ![j] = Finished(job, stage)]

\* the success path with the two exports stored under each other's key
SuccessResultSwapped(title, description, transcript) ==
  LET recipe == synthesizeRecipe(title, description, transcript) IN
    JobResult(recipe, renderTxt(recipe), renderMarkdown(recipe))

\* lines 65-68: the JobResult of the success path
SuccessResult(title, description, transcript) ==
  LET recipe == synthesizeRecipe(title, description, transcript) IN
    JobResult(recipe, renderMarkdown(recipe), renderTxt(recipe))

\* the transcripts the Transcript Retriever can return on the modelled responses
Transcripts ==
  {""} \cup {o.merged : o \in VttOutcomes} \cup {JoinItems(o.items) : o \in XmlOutcomes}

\* the success results of the modelled pages and transcripts, computed once
SuccessResults ==
  {[title |-> o.title, description |-> o.description, transcript |-> tr,
    result |-> SuccessResult(o.title, o.description.s, tr)] :
     o \in {p \in PageOutcomes : ~p.raised /\ p.description.t = "string"}, tr \in Transcripts}

\* lines 64-68 with title, description and transcript held in variables that
\* all jobs share: the strings of the job started last are used
SynthesizeShared(j) ==
  /\ jobs[j].pc = "synth"
  /\ LET last == jobs[Len(jobs)] IN
       IF last.description.t # "string"
       THEN CatchFailure(j, jobs[j], "synthesizer")
       ELSE \E e \in SuccessResults :
              /\ e.title = last.title
              /\ e.description = last.description
              /\ e.transcript = last.transcript
              /\ Store(j, e.result)
              /\ jobs' = [jobs EXCEPT ![j] = Finished(jobs[j], "")]
  /\ UNCHANGED <<uploads, subs, reply, nreq>>

\* lines 64-68, from the return of the Transcript Retriever to the end of the
\* async function.  A description that is not a string makes extractIngredients
\* throw (line 227).
Synthesize(j) ==
  /\ jobs[j].pc = "synth"
  /\ IF jobs[j].description.t # "string"
     THEN CatchFailure(j, jobs[j], "synthesizer")
     ELSE \E e \in SuccessResults :
            /\ e.title = jobs[j].title
            /\ e.description = jobs[j].description
            /\ e.transcript = jobs[j].transcript
            /\ Store(j, e.result)
            /\ jobs' = [jobs EXCEPT ![j] = Finished(jobs[j], "")]
  /\ UNCHANGED <<uploads, subs, reply, nreq>>

\* the record of a new job: the pipeline suspended at its first fetch, or none
Launched(upload_id) == NewJob("page", uploads[upload_id].source_type, uploads[upload_id].source_url)
NotLaunched(upload_id) ==
  NewJob("none", IF upload_id \in 1..Len(uploads) THEN uploads[upload_id].source_type
                 ELSE "unknown", "")

\* start-job with the placeholder stored before the test of line 60 instead of in
\* its else branch
StartJobStoresFirst(upload_id) ==
  /\ Accept
  /\ IF upload_id = 0
     THEN /\ reply' = Reply("start-job", 400, 0, NoResult)
          /\ UNCHANGED <<jobs, jobResults, writes>>
     ELSE LET job_id == Len(jobs) + 1
              known == upload_id \in 1..Len(uploads)
          IN /\ Len(jobs) < MaxJobs
             /\ Store(job_id, NotImplementedResult)
             /\ IF known /\ uploads[upload_id].source_type = "url"
                         /\ uploads[upload_id].source_url # ""
                THEN jobs' = Append(jobs, Launched(upload_id))
                ELSE jobs' = Append(jobs, NotLaunched(upload_id))
             /\ reply' = Reply("start-job", 200, job_id, NoResult)
  /\ UNCHANGED <<uploads, subs>>

\* start-job with the placeholder stored for a file upload only: an id without
\* a record leaves the store alone
StartJobFileOnly(upload_id) ==
  /\ Accept
  /\ IF upload_id = 0
     THEN /\ reply' = Reply("start-job", 400, 0, NoResult)
          /\ UNCHANGED <<jobs, jobResults, writes>>
     ELSE LET job_id == Len(jobs) + 1
              known == upload_id \in 1..Len(uploads)
          IN /\ Len(jobs) < MaxJobs
             /\ IF known /\ uploads[upload_id].source_type = "url"
                         /\ uploads[upload_id].source_url # ""
                THEN /\ jobs' = Append(jobs, Launched(upload_id))
                     /\ UNCHANGED <<jobResults, writes>>
                ELSE /\ jobs' = Append(jobs, NotLaunched(upload_id))
                     /\ IF known THEN Store(job_id, NotImplementedResult)
                        ELSE UNCHANGED <<jobResults, writes>>
             /\ reply' = Reply("start-job", 200, job_id, NoResult)
  /\ UNCHANGED <<uploads, subs>>

\* router.post('/start-job') (lines 53-78); upload_id 0 stands for a body that
\* StartJobReq.safeParse rejects (a missing or empty id)
StartJob(upload_id) ==
  /\ Accept
  /\ IF upload_id = 0
     THEN /\ reply' = Reply("start-job", 400, 0, NoResult)
          /\ UNCHANGED <<jobs, jobResults, writes>>
     ELSE LET job_id == Len(jobs) + 1
              known == upload_id \in 1..Len(uploads)
          IN /\ Len(jobs) < MaxJobs
             /\ IF known /\ uploads[upload_id].source_type = "url"
                         /\ uploads[upload_id].source_url # ""
                THEN /\ jobs' = Append(jobs, Launched(upload_id))
                     /\ UNCHANGED <<jobResults, writes>>
                ELSE /\ jobs' = Append(jobs, NotLaunched(upload_id))
                     /\ Store(job_id, NotImplementedResult)
             /\ reply' = Reply("start-job", 200, job_id, NoResult)
  /\ UNCHANGED <<uploads, subs>>

\* router.get('/jobs/:job_id/status') (lines 80-82)
StatusState == "synthesizing"
StatusPct == 72
GetStatus(job_id) ==
  /\ Accept
  /\ reply' = [Reply("status", 200, 0, NoResult) EXCEPT
                 !.state = StatusState, !.pct = StatusPct]
  /\ UNCHANGED <<uploads, jobs, jobResults, writes, subs>>

\* get-recipe that hands a result out once: the entry is deleted when it is read
GetResultConsumes(job_id) ==
  /\ Accept
  /\ reply' = IF job_id = 0 THEN Reply("get-recipe", 400, 0, NoResult)
              ELSE IF ~jobResults[job_id].present THEN Reply("get-recipe", 425, 0, NoResult)
              ELSE Reply("get-recipe", 200, 0, jobResults[job_id])
  /\ jobResults' = IF job_id = 0 THEN jobResults
                   ELSE [jobResults EXCEPT ![job_id] = NoResult]
  /\ UNCHANGED <<uploads, jobs, writes, subs>>

\* router.get('/get-recipe') (lines 100-106): job_id 0 stands for a missing or empty id
GetResult(job_id) ==
  /\ Accept
  /\ reply' = IF job_id = 0 THEN Reply("get-recipe", 400, 0, NoResult)
              ELSE IF ~jobResults[job_id].present THEN Reply("get-recipe", 425, 0, NoResult)
              ELSE Reply("get-recipe", 200, 0, jobResults[job_id])
  /\ UNCHANGED <<uploads, jobs, jobResults, writes, subs>>

\* ------------------------------------------------------ the async pipeline
\* Each action is the completion of the pending network exchange of job j (the
\* fetch and the reading of its body) followed by the code up to the next fetch
\* or to the return of the function that issued it.

\* the URL of the pending request of job j
PendingFetch(j) ==
  LET job == jobs[j] IN
    CASE job.pc = "page" -> job.url
      [] job.pc = "watch" -> "https://www.youtube.com/watch?v=" \o VideoId(job.url)
      [] job.pc = "vtt" -> VttUrl(job.baseUrl)
      [] job.pc = "xml" -> job.baseUrl
      [] job.pc = "legacy" -> "https://www.youtube.com/api/timedtext?lang=" \o langs[job.lang]
                                \o "&v=" \o VideoId(job.url)
      [] OTHER -> ""

Suspend(j, pc, baseUrl, lang) ==
  /\ jobs' = [jobs EXCEPT ![j] = [@ EXCEPT !.pc = pc, !.baseUrl = baseUrl, !.lang = lang]]
  /\ UNCHANGED <<jobResults, writes>>

\* tryFetchYouTubeTranscript returns transcript and an interim result is stored
\* ahead of the Synthesizer
ReturnStoresInterim(j, transcript, exhausted) ==
  /\ jobs' = [jobs EXCEPT ![j] = TranscriptReturned(@, transcript, exhausted)]
  /\ Store(j, NotImplementedResult)

\* tryFetchYouTubeTranscript returns transcript
Return(j, transcript, exhausted) ==
  /\ jobs' = [jobs EXCEPT ![j] = TranscriptReturned(@, transcript, exhausted)]
  /\ UNCHANGED <<jobResults, writes>>

\* a loop of lines 172-182 that leaves out the language it should try next
NextAttemptSkipping(j, k) ==
  IF k + 1 <= Len(langs) THEN Suspend(j, "legacy", "", k + 1) ELSE Return(j, "", TRUE)

\* the primary path or legacy attempt k - 1 gave nothing: the loop of lines 172-182
\* issues attempt k, or line 183 returns ''
NextAttempt(j, k) ==
  IF k <= Len(langs) THEN Suspend(j, "legacy", "", k) ELSE Return(j, "", TRUE)

\* lines 122-137, then lines 141-146
PageFetchDone(j) ==
  /\ jobs[j].pc = "page"
  /\ \/ CatchFailure(j, jobs[j], "resolver")
     \/ \E r \in PageOutcomes :
            IF r.raised THEN CatchFailure(j, jobs[j], "resolver")
            ELSE /\ jobs' = [jobs EXCEPT ![j] =
                      IF VideoId(jobs[j].url) = ""
                      THEN TranscriptReturned([@ EXCEPT !.title = r.title,
                                                 !.description = r.description], "", FALSE)
                      ELSE [@ EXCEPT !.pc = "watch", !.title = r.title,
                               !.description = r.description, !.trFetched = TRUE]]
                 /\ UNCHANGED <<jobResults, writes>>
  /\ UNCHANGED <<uploads, subs, reply, nreq>>

\* the primary path without its try: a rejected fetch of the watch page leaves
\* tryFetchYouTubeTranscript as an exception
WatchFetchDoneRaises(j) ==
  /\ jobs[j].pc = "watch"
  /\ \/ CatchFailure(j, jobs[j], "retriever")
     \/ \E p \in TrackOutcomes :
            IF p.raised \/ p.baseUrl = "" THEN NextAttempt(j, 1)
            ELSE Suspend(j, "vtt", p.baseUrl, 0)
  /\ UNCHANGED <<uploads, subs, reply, nreq>>

\* lines 146-154
WatchFetchDone(j) ==
  /\ jobs[j].pc = "watch"
  /\ \/ NextAttempt(j, 1)
     \/ \E p \in TrackOutcomes :
            IF p.raised \/ p.baseUrl = "" THEN NextAttempt(j, 1)
            ELSE Suspend(j, "vtt", p.baseUrl, 0)
  /\ UNCHANGED <<uploads, subs, reply, nreq>>

\* lines 154-160
VttFetchDone(j) ==
  /\ jobs[j].pc = "vtt"
  /\ \/ NextAttempt(j, 1)
     \/ \E r \in VttOutcomes :
            IF r.ok /\ Trim(r.merged) # "" THEN Return(j, r.merged, FALSE)
            ELSE Suspend(j, "xml", jobs[j].baseUrl, 0)
  /\ UNCHANGED <<uploads, subs, reply, nreq>>

\* lines 160-168
XmlFetchDone(j) ==
  /\ jobs[j].pc = "xml"
  /\ \/ NextAttempt(j, 1)
     \/ \E r \in XmlOutcomes :
            IF r.ok /\ Len(r.items) > 0 THEN Return(j, JoinItems(r.items), FALSE)
            ELSE NextAttempt(j, 1)
  /\ UNCHANGED <<uploads, subs, reply, nreq>>

\* lines 173-181
LegacyFetchDone(j) ==
  /\ jobs[j].pc = "legacy"
  /\ \/ NextAttempt(j, jobs[j].lang + 1)
     \/ \E r \in XmlOutcomes :
            IF r.ok /\ r.hasText /\ Len(r.items) > 0
            THEN Return(j, JoinItems(r.items), FALSE)
            ELSE NextAttempt(j, jobs[j].lang + 1)
  /\ UNCHANGED <<uploads, subs, reply, nreq>>

\* -------------------------------------------------------------- event stream
\* line 88
states == <<"queued", "extracting", "transcribing", "understanding", "synthesizing",
            "validating", "completed">>

\* what the two res.write calls of lines 92-93 send
Event(name) == [event |-> name, data |-> [state |-> name]]

\* a subscription: i (line 89), whether the interval is set, the res.end timer
\* ("none", "pending", "fired"), the connection ("open", "aborted" when the
\* subscriber went away before res.end, "closed" after it), the events written
NewSub ==
  [i |-> 0, interval |-> TRUE, endTimer |-> "none", conn |-> "open", out |-> <<>>]

\* router.get('/jobs/:job_id/events') (lines 84-98): the handler itself. It never
\* reads req.params.job_id, so the subscription keeps no trace of the job it names.
StreamEvents(job_id) ==
  /\ Accept
  /\ Len(subs) < MaxSubs
  /\ subs' = Append(subs, NewSub)
  /\ UNCHANGED <<uploads, jobs, jobResults, writes, reply>>

\* an interval callback that never schedules res.end()
TickNoEnd(s) ==
  /\ subs[s].interval
  /\ subs' = [subs EXCEPT ![s] =
       IF @.i >= Len(states) THEN [@ EXCEPT !.interval = FALSE]
       ELSE [@ EXCEPT !.out = Append(@, Event(states[subs[s].i + 1])), !.i = @ + 1]]
  /\ UNCHANGED <<uploads, jobs, jobResults, writes, reply, nreq>>

\* an interval callback that holds the last event back until a result is stored
TickGated(s) ==
  /\ subs[s].interval
  /\ subs[s].i + 1 = Len(states) => \E j \in JobIdSpace : jobResults[j].present
  /\ subs' = [subs EXCEPT ![s] =
       IF @.i >= Len(states) THEN [@ EXCEPT !.interval = FALSE]
       ELSE [@ EXCEPT !.out = Append(@, Event(states[subs[s].i + 1])),
                      !.i = @ + 1,
                      !.endTimer = IF subs[s].i + 1 = Len(states) THEN "pending" ELSE @]]
  /\ UNCHANGED <<uploads, jobs, jobResults, writes, reply, nreq>>

\* the interval callback (lines 90-96)
Tick(s) ==
  /\ subs[s].interval
  /\ subs' = [subs EXCEPT ![s] =
       IF @.i >= Len(states) THEN [@ EXCEPT !.interval = FALSE]
       ELSE [@ EXCEPT !.out = Append(@, Event(states[subs[s].i + 1])),
                      !.i = @ + 1,
                      !.endTimer = IF subs[s].i + 1 = Len(states) THEN "pending" ELSE @]]
  /\ UNCHANGED <<uploads, jobs, jobResults, writes, reply, nreq>>

\* the timeout callback of line 95: res.end()
EndStream(s) ==
  /\ subs[s].endTimer = "pending"
  /\ subs' = [subs EXCEPT ![s] = [@ EXCEPT !.endTimer = "fired"]]
  /\ UNCHANGED <<uploads, jobs, jobResults, writes, reply, nreq>>

\* a 'close' listener on an interval shared by all subscriptions
DisconnectAll(s) ==
  /\ subs[s].conn = "open"
  /\ subs' = [t \in 1..Len(subs) |->
       IF t = s
       THEN [subs[t] EXCEPT !.interval = FALSE,
               !.conn = IF subs[s].endTimer = "fired" THEN "closed" ELSE "aborted"]
       ELSE [subs[t] EXCEPT !.interval = FALSE]]
  /\ UNCHANGED <<uploads, jobs, jobResults, writes, reply, nreq>>

\* the 'close' listener of line 97: the subscriber went away, or the ended
\* response closed the connection
Disconnect(s) ==
  /\ subs[s].conn = "open"
  /\ subs' = [subs EXCEPT ![s] = [@ EXCEPT !.interval = FALSE,
                 !.conn = IF subs[s].endTimer = "fired" THEN "closed" ELSE "aborted"]]
  /\ UNCHANGED <<uploads, jobs, jobResults, writes, reply, nreq>>

\* ------------------------------------------------------------ specification
JobIds == 1..Len(jobs)
SubIds == 1..Len(subs)

Next ==
  \/ \E body \in Descriptors : CreateUpload(body) /\ UNCHANGED client
  \/ \E upload_id \in {0} \cup UploadIdSpace : StartJob(upload_id) /\ UNCHANGED client
  \/ \E job_id \in JobIdSpace : GetStatus(job_id) /\ UNCHANGED client
  \/ \E job_id \in {0} \cup JobIdSpace : GetResult(job_id) /\ UNCHANGED client
  \/ \E job_id \in JobIdSpace : StreamEvents(job_id) /\ UNCHANGED client
  \/ \E j \in JobIds : PageFetchDone(j) /\ UNCHANGED client
  \/ \E j \in JobIds : WatchFetchDone(j) /\ UNCHANGED client
  \/ \E j \in JobIds : VttFetchDone(j) /\ UNCHANGED client
  \/ \E j \in JobIds : XmlFetchDone(j) /\ UNCHANGED client
  \/ \E j \in JobIds : LegacyFetchDone(j) /\ UNCHANGED client
  \/ \E j \in JobIds : Synthesize(j) /\ UNCHANGED client
  \/ \E s \in SubIds : Tick(s) /\ UNCHANGED client
  \/ \E s \in SubIds : EndStream(s) /\ UNCHANGED client
  \/ \E s \in SubIds : Disconnect(s) /\ UNCHANGED client

Spec == Init /\ [][Next]_vars

\* Every pending fetch returns or rejects, and every timer that is set fires.
\* Requests and disconnects are up to the callers.
PipelineStep(j) ==
  /\ j \in JobIds
  /\ (PageFetchDone(j) \/ WatchFetchDone(j) \/ VttFetchDone(j) \/ XmlFetchDone(j)
        \/ LegacyFetchDone(j) \/ Synthesize(j))
  /\ UNCHANGED client
TimerStep(s) == s \in SubIds /\ (Tick(s) \/ EndStream(s)) /\ UNCHANGED client

FairSpec ==
  /\ Spec
  /\ \A j \in 1..MaxJobs : WF_vars(PipelineStep(j))
  /\ \A s \in 1..MaxSubs : WF_vars(TimerStep(s))

\* ---------------------------------------- the Recipe Synthesizer on its inputs
\* The strings synthesizeRecipe can be handed at line 65: a transcript and a
\* description built from a few sentences and lines, so that every branch of
\* extractSteps and extractIngredients is taken.
MaxSentences == 3
MaxBodyLines == 2

\* all sequences over S of length 0..n
RECURSIVE SeqsUpTo(_, _)
SeqsUpTo(S, n) ==
  IF n = 0 THEN {<<>>}
  ELSE LET shorter == SeqsUpTo(S, n - 1) IN
         shorter \cup {Append(q, x) : q \in shorter, x \in S}

\* pieces of spoken text: without a cue, with a cue and a lowercase start, with a
\* step number in front, and a number that the sentence split sets apart
SentencePool == {"wash hands.", "add salt!", "2) Stir it.", "1. Rest?"}

\* thirteen sentences with a cue, one more than extractSteps keeps (line 264)
ManyCues ==
  Join([k \in 1..(MaxSteps + 1) |-> "Stir " \o SubSeq("abcdefghijklmnopqrstuvwxyz", k, k) \o "."], " ")

\* the text parameter of extractSteps (line 252), empty text aside
StepTexts ==
  {Join(q, " ") : q \in SeqsUpTo(SentencePool, MaxSentences) \ {<<>>}}
    \cup {"   ", "just rest", "let it rest.  Then\nServe warm", ManyCues,
          "Preheat the oven. Add flour and stir gently. Serve warm."}

\* a description with an ingredients section: the lines before the header, the
\* header, the ingredient lines, the header that closes the section, the rest
IngredientLinePool == {"2 cups flour", "- salt", "1.5 kg beef"}
ManyIngredientLines == [k \in 1..(MaxIngredients + 1) |-> ToString(k) \o " g oats"]
Section(prelude, header, body, closing, rest) ==
  [prelude |-> prelude, header |-> header, body |-> body, closing |-> closing, rest |-> rest]
Sections ==
  {Section(p, h, b, c, r) :
     p \in {<<>>, <<"Best cake", "3 eggs">>},
     h \in {<<"Ingredients">>, <<"INGREDIENTES:">>},
     b \in SeqsUpTo(IngredientLinePool, MaxBodyLines) \cup {ManyIngredientLines},
     c \in {<<"Instructions">>, <<"instructions:">>},
     r \in {<<>>, <<"Bake 20 min", "4 apples">>}}
DescriptionOf(section) ==
  Join(section.prelude \o section.header \o section.body \o section.closing \o section.rest, "\n")

\* the input of synthesizeRecipe (line 210)
SynthInput(title, description, transcriptText) ==
  [title |-> title, description |-> description, transcriptText |-> transcriptText]
SynthInputs ==
  {SynthInput("Tarta", "", t) : t \in StepTexts \cup {""}}
    \cup {SynthInput("Tarta", d, "") : d \in StepTexts}
    \cup {SynthInput("", d, t) : d \in {"just rest", "add salt!"}, t \in {"wash hands.", "2) Stir it."}}
    \cup {SynthInput("Tarta", DescriptionOf(s), "") : s \in Sections}

\* a URL job at line 65: the Source Resolver has returned the title and the
\* description, the Transcript Retriever has returned the transcript, from a
\* legacy attempt or as '' after the last one
AtSynthesizer(input) ==
  [NewJob("synth", "url", UrlWithId) EXCEPT
     !.title = input.title, !.description = Str(input.description),
     !.trFetched = TRUE, !.trReturned = TRUE, !.transcript = input.transcriptText,
     !.lang = IF input.transcriptText = "" THEN Len(langs) + 1 ELSE 0]

SynthInit ==
  /\ uploads = <<Descriptor("url", 0, UrlWithId)>>
  /\ \E input \in SynthInputs : jobs = <<AtSynthesizer(input)>>
  /\ jobResults = [j \in JobIdSpace |-> NoResult]
  /\ writes = [j \in JobIdSpace |-> 0]
  /\ subs = <<>>
  /\ reply = Reply("start-job", 200, 1, NoResult)
  /\ nreq = 2
  /\ client = IdleClient

\* lines 64-68 with the result computed from the job's own strings
SynthesizeInput(j) ==
  /\ jobs[j].pc = "synth"
  /\ jobs[j].description.t = "string"
  /\ Store(j, SuccessResult(jobs[j].title, jobs[j].description.s, jobs[j].transcript))
  /\ jobs' = [jobs EXCEPT ![j] = Finished(jobs[j], "")]
  /\ UNCHANGED <<uploads, subs, reply, nreq>>

SynthNext == \E j \in JobIds : SynthesizeInput(j) /\ UNCHANGED client

SynthSpec == SynthInit /\ [][SynthNext]_vars

\* ------------------------------------------------------- the bundled client
\* One Home component and the server.  A request of the client is taken at the
\* step in which its response reaches the client: the handler runs and the code
\* after the await goes on, up to the next await.  Every response arrives; the
\* order in which responses, stream events and timers come is free.
MaxPolls == 2
MaxAttempts == 60

\* what the user has entered: the video URL and the size of the chosen file,
\* -1 for no file; canSubmit (lines 341-343) holds for each of them.  The URL
\* that is accepted has no video id, so the pipeline of its job has one fetch.
Entry(videoUrl, fileSize) == [videoUrl |-> videoUrl, fileSize |-> fileSize]
Entries ==
  {Entry(UrlNoId, -1), Entry(UrlNoId, 1), Entry("not a url", -1), Entry("", 1), Entry("", 0)}

\* lines 352-357
Payload(entry) ==
  Descriptor(IF entry.videoUrl # "" THEN "url" ELSE "file",
             IF entry.fileSize >= 0 THEN entry.fileSize ELSE 0,
             entry.videoUrl)

\* handleSubmit up to the fetch of create-upload (lines 345-359)
Submit(entry) ==
  /\ client.phase = "idle"
  /\ client' = [client EXCEPT !.state = "queued", !.recipe = NoResult,
                  !.payload = Payload(entry), !.phase = "create-upload"]
  /\ UNCHANGED <<uploads, jobs, jobResults, writes, subs, reply, nreq>>

\* create-upload (lines 34-50) answers; lines 363-365 and the fetch of start-job,
\* or the catch of line 431
UploadAnswered ==
  /\ client.phase = "create-upload"
  /\ LET parse == ParseUpload(client.payload) IN
       IF parse.success
       THEN /\ uploads' = Append(uploads, parse.data)
            /\ reply' = Reply("create-upload", 200, Len(uploads) + 1, NoResult)
            /\ client' = [client EXCEPT !.uploadId = Len(uploads) + 1, !.phase = "start-job"]
       ELSE /\ reply' = Reply("create-upload", 400, 0, NoResult)
            /\ client' = [client EXCEPT !.state = "failed", !.phase = "failed"]
            /\ UNCHANGED uploads
  /\ nreq' = nreq + 1
  /\ UNCHANGED <<jobs, jobResults, writes, subs>>

\* start-job (lines 53-78) answers; lines 371-409: the EventSource is created and
\* the status interval set
StartAnswered ==
  /\ client.phase = "start-job"
  /\ LET job_id == Len(jobs) + 1
         upload_id == client.uploadId
     IN /\ IF uploads[upload_id].source_type = "url" /\ uploads[upload_id].source_url # ""
           THEN /\ jobs' = Append(jobs, Launched(upload_id))
                /\ UNCHANGED <<jobResults, writes>>
           ELSE /\ jobs' = Append(jobs, NotLaunched(upload_id))
                /\ Store(job_id, NotImplementedResult)
        /\ reply' = Reply("start-job", 200, job_id, NoResult)
        /\ client' = [client EXCEPT !.jobId = job_id, !.es = "open", !.poll = TRUE,
                                    !.phase = "listening"]
  /\ nreq' = nreq + 1
  /\ UNCHANGED <<uploads, subs>>

\* the request of the EventSource reaches the events handler (lines 84-98)
StreamOpened ==
  /\ client.es = "open"
  /\ subs = <<>>
  /\ subs' = Append(subs, NewSub)
  /\ nreq' = nreq + 1
  /\ UNCHANGED <<uploads, jobs, jobResults, writes, reply, client>>

\* the next event of the stream is dispatched: onAny (lines 377-383), and for
\* "completed" the listener of lines 411-428 up to the fetch of tryFetch
EventArrives ==
  /\ client.es = "open"
  /\ subs # <<>>
  /\ client.seen < Len(subs[1].out)
  /\ LET evt == subs[1].out[client.seen + 1] IN
       client' = IF evt.event = "completed"
                 THEN [client EXCEPT !.state = evt.data.state, !.seen = @ + 1,
                         !.poll = FALSE, !.es = "closed", !.phase = "get-recipe"]
                 ELSE [client EXCEPT !.state = evt.data.state, !.seen = @ + 1]
  /\ UNCHANGED <<uploads, jobs, jobResults, writes, subs, reply, nreq>>

\* the interval callback of line 402 sends a status request
PollFires ==
  /\ client.poll
  /\ client.polls < MaxPolls
  /\ client' = [client EXCEPT !.asked = @ + 1, !.polls = @ + 1]
  /\ UNCHANGED <<uploads, jobs, jobResults, writes, subs, reply, nreq>>

\* status (lines 80-82) answers a request of the client; lines 405-408
StatusAnswered ==
  /\ client.asked > 0
  /\ reply' = [Reply("status", 200, 0, NoResult) EXCEPT
                 !.state = StatusState, !.pct = StatusPct]
  /\ client' = [client EXCEPT !.asked = @ - 1, !.state = StatusState]
  /\ nreq' = nreq + 1
  /\ UNCHANGED <<uploads, jobs, jobResults, writes, subs>>

\* get-recipe (lines 100-106) answers tryFetch; lines 416-425
RecipeAnswered ==
  /\ client.phase = "get-recipe"
  /\ IF jobResults[client.jobId].present
     THEN /\ reply' = Reply("get-recipe", 200, 0, jobResults[client.jobId])
          /\ client' = [client EXCEPT !.recipe = jobResults[client.jobId], !.phase = "shown"]
     ELSE /\ reply' = Reply("get-recipe", 425, 0, NoResult)
          /\ client' = [client EXCEPT !.phase = IF client.attempt < MaxAttempts
                                                THEN "retry" ELSE "gave-up"]
  /\ nreq' = nreq + 1
  /\ UNCHANGED <<uploads, jobs, jobResults, writes, subs>>

\* the timeout of line 424 fires: tryFetch(attempt + 1)
RetryFires ==
  /\ client.phase = "retry"
  /\ client' = [client EXCEPT !.attempt = @ + 1, !.phase = "get-recipe"]
  /\ UNCHANGED <<uploads, jobs, jobResults, writes, subs, reply, nreq>>

\* the 'close' listener of line 97 runs after es.close() or after res.end()
StreamClosed ==
  /\ subs # <<>>
  /\ client.es = "closed" \/ subs[1].endTimer = "fired"
  /\ Disconnect(1)
  /\ UNCHANGED client

\* the steps of the client and of the server on the client's requests
ClientStep ==
  \/ UploadAnswered
  \/ StartAnswered
  \/ StreamOpened
  \/ EventArrives
  \/ PollFires
  \/ StatusAnswered
  \/ RecipeAnswered
  \/ RetryFires
  \/ StreamClosed

\* The client, its requests, and the server's pipeline and timers.  The job of
\* a URL without a video id has the page fetch as its only fetch (line 143).
ClientNext ==
  \/ \E entry \in Entries : Submit(entry)
  \/ UploadAnswered
  \/ StartAnswered
  \/ StreamOpened
  \/ EventArrives
  \/ PollFires
  \/ StatusAnswered
  \/ RecipeAnswered
  \/ RetryFires
  \/ StreamClosed
  \/ \E j \in JobIds : PageFetchDone(j) /\ UNCHANGED client
  \/ \E j \in JobIds : Synthesize(j) /\ UNCHANGED client
  \/ \E s \in SubIds : Tick(s) /\ UNCHANGED client
  \/ \E s \in SubIds : EndStream(s) /\ UNCHANGED client

ClientSpec == Init /\ [][ClientNext]_vars

\* Every pending fetch of the server and of the client is answered and every
\* timer that is set fires; the user may or may not submit.
FairClientSpec ==
  /\ ClientSpec
  /\ WF_vars(PipelineStep(1))
  /\ WF_vars(TimerStep(1))
  /\ WF_vars(ClientStep)

\* ------------------------------------------------------------------ claims
\* C1: whatever requests and pipeline steps happen, the entry of the result store
\* for a job id is written at most once, and an entry that is present is never
\* changed or removed.
WrittenOnceAndKept ==
  /\ [](\A j \in JobIdSpace : writes[j] <= 1 /\ (jobResults[j].present <=> writes[j] = 1))
  /\ [][\A j \in JobIdSpace : jobResults[j].present => jobResults'[j] = jobResults[j]]_vars

\* a URL job has finished and its result has been read
UrlResultRead ==
  /\ reply.op = "get-recipe" /\ reply.status = 200
  /\ \E j \in JobIds : /\ jobs[j].source = "url" /\ jobs[j].pc = "done"
                        /\ reply.body = jobResults[j] /\ writes[j] = 1

\* C2: a job started for a file upload, or for an upload id without a record, has
\* its result in the store from the moment start-job answers; the recipe of that
\* result has exactly one step, whose text is the not-implemented message; and no
\* pipeline is launched for it.
FileOrUnknownIsImmediate ==
  \A j \in JobIds : jobs[j].source # "url" =>
    /\ jobResults[j].present
    /\ jobResults[j].recipe_json.steps = <<[n |-> 1, text |-> "File processing not implemented"]>>
    /\ jobs[j].pc = "none"
    /\ ~jobs[j].trFetched

\* start-job has just answered for a file upload and for an unknown upload id
FileAndUnknownStarted ==
  /\ reply.op = "start-job" /\ reply.status = 200 /\ reply.id = 2
  /\ {jobs[j].source : j \in JobIds} = {"file", "unknown"}

\* C3: get-recipe answers not-ready exactly when the store has no entry for the
\* id (one never created, one whose pipeline has not finished), answers with the
\* stored result when there is one, and leaves the store as it was.
GetResultAnswers ==
  [][\A id \in JobIdSpace : GetResult(id) =>
        /\ reply'.status = 425 <=> ~jobResults[id].present
        /\ reply'.status = 200 <=> jobResults[id].present
        /\ jobResults[id].present => reply'.body = jobResults[id]
        /\ jobResults' = jobResults /\ writes' = writes]_vars

\* not-ready was answered while a pipeline was in flight
NotReadyInFlight ==
  /\ reply.op = "get-recipe" /\ reply.status = 425
  /\ \E j \in JobIds : jobs[j].pc \notin {"none", "done"} /\ ~jobResults[j].present

\* C4: under FairSpec (every pending fetch returns or rejects), a job started for
\* a URL upload eventually has a result whose recipe title is not empty, on the
\* success path and on the caught-failure path alike.
UrlJobYieldsTitle ==
  \A j \in 1..MaxJobs :
    (IF j \in JobIds THEN jobs[j].source = "url" ELSE FALSE)
      ~> (IF jobResults[j].present THEN jobResults[j].recipe_json.title # "" ELSE FALSE)

\* a URL job succeeded on a page without any title and got the generic one
UrlJobDefaultTitle ==
  \E j \in JobIds : /\ jobs[j].source = "url" /\ jobs[j].pc = "done"
                     /\ jobs[j].raisedAt = "" /\ jobResults[j].present
                     /\ jobResults[j].recipe_json.title = "Recipe"
                     /\ jobResults[j].markdown # "# Error"

\* C5: when a stage of a URL job's pipeline raises, the exception is caught at the
\* job level: the async function has returned and the store holds for that job
\* id a result whose recipe has exactly one step, the failure message.
FailureIsCaught ==
  \A j \in JobIds : jobs[j].raisedAt # "" =>
    /\ jobs[j].pc = "done"
    /\ jobResults[j].present
    /\ jobResults[j].recipe_json.steps = <<[n |-> 1, text |-> "Failed to extract content"]>>

\* the synthesizer raised on a description that is not a string
SynthesizerRaised ==
  \E j \in JobIds : jobs[j].raisedAt = "synthesizer" /\ jobResults[j].present

\* C6: the Source Resolver never fails: no exception of fetchYouTubePage reaches
\* the job level, whatever the fetch and the page give.
ResolverNeverFails == \A j \in JobIds : jobs[j].raisedAt # "resolver"

\* C7: the Transcript Retriever never fails: no exception of it reaches the job
\* level and a job inside it only moves on to a later attempt or to its return;
\* what it returns is empty when the legacy loop ran to its end, and empty with
\* no fetch issued when the URL has no video id.
RetrieverNeverFails ==
  /\ [](\A j \in JobIds :
         /\ jobs[j].raisedAt # "retriever"
         /\ jobs[j].pc = "synth" =>
              /\ jobs[j].trReturned
              /\ jobs[j].lang = Len(langs) + 1 => jobs[j].transcript = ""
              /\ VideoId(jobs[j].url) = "" => ~jobs[j].trFetched /\ jobs[j].transcript = "")
  /\ [][\A j \in JobIds :
          jobs[j].pc \in {"watch", "vtt", "xml", "legacy"} =>
            /\ jobs'[j].pc \in {"watch", "vtt", "xml", "legacy", "synth"}
            /\ jobResults'[j] = jobResults[j]]_vars

\* every attempt was made in vain and the retriever returned the empty string
RetrieverExhausted ==
  \E j \in JobIds : /\ jobs[j].pc = "synth" /\ jobs[j].trFetched
                     /\ jobs[j].lang = Len(langs) + 1 /\ jobs[j].transcript = ""

\* the seven events of a stream, in order
ExpectedEvents ==
  <<[event |-> "queued", data |-> [state |-> "queued"]],
    [event |-> "extracting", data |-> [state |-> "extracting"]],
    [event |-> "transcribing", data |-> [state |-> "transcribing"]],
    [event |-> "understanding", data |-> [state |-> "understanding"]],
    [event |-> "synthesizing", data |-> [state |-> "synthesizing"]],
    [event |-> "validating", data |-> [state |-> "validating"]],
    [event |-> "completed", data |-> [state |-> "completed"]]>>

\* subscription s has got every event and its response has been ended
StreamDone(s) == subs[s].out = ExpectedEvents /\ subs[s].endTimer = "fired"

\* subscription s exists and was not disconnected, yet has not run to its end
StreamUnfinished(s) ==
  IF s \in SubIds THEN subs[s].conn # "aborted" /\ ~StreamDone(s) ELSE FALSE

\* subscriptions s and t both exist and the subscriber of s has disconnected
OtherDisconnected(s, t) ==
  IF s # t /\ {s, t} \subseteq SubIds THEN subs[s].conn = "aborted" ELSE FALSE

\* C8: under FairSpec (timers fire), what a subscription has been sent is always
\* a prefix of the seven events in their fixed order, each carrying its state
\* name; nothing follows completed; and unless the subscriber disconnects, all
\* seven are sent and the stream is then closed.
StreamRunsToEnd ==
  /\ [](\A s \in SubIds :
         /\ Len(subs[s].out) <= Len(ExpectedEvents)
         /\ subs[s].out = SubSeq(ExpectedEvents, 1, Len(subs[s].out))
         /\ subs[s].endTimer # "none" => subs[s].out = ExpectedEvents)
  /\ \A s \in 1..MaxSubs : (s \in SubIds) ~> ~StreamUnfinished(s)

\* a stream ran to its end and the connection was closed by the server
StreamClosedAfterCompleted ==
  \E s \in SubIds : StreamDone(s) /\ subs[s].conn = "closed"

\* C9: once a subscriber has disconnected nothing more is sent to it; the step in
\* which it disconnects changes no job, no entry of the result store and no other
\* subscription; and every other subscription still runs to its end.
DisconnectIsLocal ==
  /\ [][\A s \in SubIds :
          /\ subs[s].conn = "aborted" => subs'[s].out = subs[s].out
          /\ (subs[s].conn = "open" /\ subs'[s].conn # "open") =>
               /\ jobs' = jobs /\ jobResults' = jobResults /\ writes' = writes
               /\ \A t \in SubIds \ {s} : subs'[t] = subs[t]]_vars
  /\ \A s, t \in 1..MaxSubs : OtherDisconnected(s, t) ~> ~StreamUnfinished(t)

\* one subscriber left early, the other one got the whole sequence
OneLeftOtherDone ==
  \E s, t \in SubIds : /\ subs[s].conn = "aborted" /\ Len(subs[s].out) < Len(ExpectedEvents)
                        /\ StreamDone(t)

StoredStepTexts(result) ==
  [k \in 1..Len(result.recipe_json.steps) |-> result.recipe_json.steps[k].text]

\* a is b with some elements left out
RECURSIVE IsSubsequence(_, _)
IsSubsequence(a, b) ==
  IF a = <<>> THEN TRUE
  ELSE IF b = <<>> THEN FALSE
  ELSE IF a[1] = b[1] THEN IsSubsequence(Tail(a), Tail(b))
  ELSE IsSubsequence(a, Tail(b))

\* the positions of the sentences that contain a cue word, and the k-th of them
CuePositions(sentences) == {i \in 1..Len(sentences) : HasCue(sentences[i])}
KthOf(S, k) == CHOOSE i \in S : Cardinality({x \in S : x < i}) = k - 1

\* text is sentence with a leading step number ("n:", "n." or "n)" and the blanks
\* after it) left out and its first character in upper case
IsNormalised(text, sentence) ==
  \E n \in 0..Len(sentence) :
    /\ text = capitalize(Drop(sentence, n))
    /\ n > 0 => /\ n >= 2
                /\ \E d \in 1..(n - 1) :
                     /\ \A i \in 1..d : Char(sentence, i) \in Digits
                     /\ Char(sentence, d + 1) \in {":", ".", ")"}
                     /\ \A i \in (d + 2)..n : Char(sentence, i) \in WhiteSpace
                /\ text = "" \/ Head(text) \notin WhiteSpace

\* the step at which the job of a start-job call stores its synthesized result
Synthesized(j) == jobs[j].pc = "synth" /\ jobResults'[j].present

\* C11 as stated: for every non-empty transcript the steps of the recipe are a
\* subsequence of the sentences of the transcript, each step holds a cue word,
\* there are at most 12 of them, and n is the 1-based position.
StepsAreCueSentences ==
  [][\A j \in JobIds :
       Synthesized(j) /\ jobs[j].transcript # "" =>
         LET texts == StoredStepTexts(jobResults'[j])
             steps == jobResults'[j].recipe_json.steps
         IN /\ IsSubsequence(texts, Sentences(jobs[j].transcript))
            /\ \A k \in 1..Len(texts) : HasCue(texts[k]) /\ steps[k].n = k
            /\ Len(texts) <= 12]_vars

\* C11 as amended: for every non-empty transcript there are at most 12 steps and n
\* is the 1-based position; when some sentence of the transcript holds a cue word
\* the steps are the first 12 such sentences, in their order, each without its
\* leading step number and with its first character in upper case, and each still
\* holds a cue word; when no sentence does there is exactly one step.
StepsAreNormalisedCueSentences ==
  [][\A j \in JobIds :
       Synthesized(j) /\ jobs[j].transcript # "" =>
         LET sentences == Sentences(jobs[j].transcript)
             cued == CuePositions(sentences)
             texts == StoredStepTexts(jobResults'[j])
             steps == jobResults'[j].recipe_json.steps
         IN /\ Len(texts) <= 12
            /\ \A k \in 1..Len(texts) : steps[k].n = k
            /\ IF cued = {} THEN Len(texts) = 1
               ELSE /\ Len(texts) = (IF Cardinality(cued) < 12 THEN Cardinality(cued) ELSE 12)
                    /\ \A k \in 1..Len(texts) :
                         /\ IsNormalised(texts[k], sentences[KthOf(cued, k)])
                         /\ HasCue(texts[k])]_vars

\* a transcript of thirteen cue sentences has given twelve steps
TwelveStepsKept ==
  \E j \in JobIds :
    /\ jobs[j].pc = "done" /\ jobResults[j].present
    /\ Len(jobResults[j].recipe_json.steps) = 12
    /\ jobResults[j].recipe_json.steps[12] = [n |-> 12, text |-> "Stir l."]

\* a is what is left of b after some of its leading characters
IsSuffix(a, b) == Len(a) <= Len(b) /\ a = Drop(b, Len(b) - Len(a))

\* C12: for every description made of an Ingredients header, N valid lines and
\* an Instructions header, with or without lines before and after, the
\* ingredients of the recipe are the first min(N, 50) of the N lines, one
\* ingredient per line and in the order of the lines: nothing comes from before
\* the Ingredients header or from after the Instructions header.
IngredientsAreSectionLines ==
  [][\A j \in JobIds : \A section \in Sections :
       Synthesized(j) /\ jobs[j].description.s = DescriptionOf(section) =>
         LET ingredients == jobResults'[j].recipe_json.ingredients
             N == Len(section.body)
         IN /\ Len(ingredients) = (IF N < 50 THEN N ELSE 50)
            /\ \A k \in 1..Len(ingredients) :
                 /\ ingredients[k] = IngredientOf(section.body[k])
                 /\ IsSuffix(ingredients[k].item, section.body[k])]_vars

\* a section of fifty-one lines between lines that are not ingredients has
\* given fifty ingredients
FiftyIngredientsKept ==
  \E j \in JobIds :
    /\ jobs[j].pc = "done" /\ jobResults[j].present
    /\ Len(jobResults[j].recipe_json.ingredients) = 50
    /\ \A k \in 1..50 : jobResults[j].recipe_json.ingredients[k].item = "oats"

\* a positive-size file descriptor, or a non-negative-size URL descriptor with a
\* well-formed URL
IsValidDescriptor(body) ==
  \/ body.source_type = "file" /\ body.size_bytes >= 1
  \/ body.source_type = "url" /\ body.size_bytes >= 0 /\ WellFormedUrl(body.source_url)

\* the handler answers an error and nothing else happens
RejectedUnchanged ==
  /\ reply'.status = 400 /\ reply'.id = 0
  /\ UNCHANGED <<uploads, jobs, jobResults, writes, subs>>

\* C13: start-job without an upload id (0 stands for a missing or empty one), and
\* create-upload with a body that is no valid descriptor, answer 400 in the step
\* of the request itself, allocate no id, launch no pipeline and leave the upload
\* store and the result store as they were; and every 400 answer of the two
\* handlers is such a step.
ValidationErrorChangesNothing ==
  [][/\ \A upload_id \in {0} \cup UploadIdSpace :
          StartJob(upload_id) /\ (upload_id = 0 \/ reply'.status = 400) => RejectedUnchanged
     /\ \A body \in Descriptors :
          CreateUpload(body) /\ (~IsValidDescriptor(body) \/ reply'.status = 400)
            => RejectedUnchanged]_vars

\* an upload has been registered, then a start-job without an upload id rejected
StartJobRejected ==
  /\ reply.op = "start-job" /\ reply.status = 400
  /\ Len(uploads) = 1 /\ jobs = <<>>
  /\ \A j \in JobIdSpace : ~jobResults[j].present

\* C14: in every recipe of the result store, synthesized or fallback, the n of
\* each step is the 1-based index of the step in steps.
StepNumbersArePositions ==
  \A j \in JobIdSpace :
    jobResults[j].present =>
      \A k \in 1..Len(jobResults[j].recipe_json.steps) :
        jobResults[j].recipe_json.steps[k].n = k

\* the store holds a not-implemented fallback and a synthesized recipe of
\* several steps
FallbackAndSynthesizedStored ==
  \E i, j \in JobIds :
    /\ jobResults[i] = NotImplementedResult
    /\ jobs[j].source = "url" /\ jobResults[j].present
    /\ Len(jobResults[j].recipe_json.steps) >= 2

\* the stage a URL job is in: 1 the Source Resolver, 2 the Transcript Retriever,
\* 3 the Synthesizer and the Renderers, 4 after the store was written
StageOf(job) ==
  CASE job.pc = "page" -> 1
    [] job.pc \in {"watch", "vtt", "xml", "legacy"} -> 2
    [] job.pc = "synth" -> 3
    [] job.pc = "done" -> 4
    [] OTHER -> 0

\* C15: a URL job goes through the Source Resolver, the Transcript Retriever and
\* the Synthesizer with the Renderers in that order, never back; the Retriever
\* starts with the Resolver's title, the Synthesizer after the Retriever has
\* returned; the store entry is written in the step that ends the sequence, by
\* completion or by failure, and until then it is absent and get-recipe for the
\* job answers not-ready.
StagesInSequence ==
  /\ [](\A j \in JobIds :
         jobs[j].source = "url" /\ jobs[j].pc # "done" => ~jobResults[j].present)
  /\ [][\A j \in JobIds :
         jobs[j].source = "url" =>
           /\ StageOf(jobs'[j]) >= StageOf(jobs[j])
           /\ StageOf(jobs'[j]) = 2 => jobs'[j].title # "" /\ ~jobs'[j].trReturned
           /\ StageOf(jobs'[j]) = 3 => jobs'[j].title # "" /\ jobs'[j].trReturned
           /\ jobResults'[j] # jobResults[j] =>
                /\ StageOf(jobs[j]) < 4 /\ StageOf(jobs'[j]) = 4
                /\ StageOf(jobs[j]) = 3 \/ jobResults'[j] = FailureResult
           /\ GetResult(j) /\ StageOf(jobs[j]) < 4 => reply'.status = 425]_vars

\* get-recipe has answered not-ready for a job whose Source Resolver has returned
\* and whose Transcript Retriever is at its last legacy attempt
NotReadyInRetriever ==
  /\ reply.op = "get-recipe" /\ reply.status = 425
  /\ Len(jobs) = 1 /\ jobs[1].pc = "legacy" /\ jobs[1].lang = Len(langs)
  /\ jobs[1].title # "" /\ ~jobResults[1].present

\* C16: with any number of jobs in flight and in every interleaving, a step of
\* the pipeline of one job changes neither the record nor the store entry of
\* another job id; a start-job call that allocates a job id gets one that no
\* earlier call got; and the result a job stores is the one that follows from
\* that job's own title, description and transcript.
JobsAreIsolated ==
  [][/\ \A j \in JobIds :
          /\ jobs'[j] # jobs[j] =>
               \A k \in JobIdSpace \ {j} :
                 /\ jobResults'[k] = jobResults[k]
                 /\ k \in JobIds => jobs'[k] = jobs[k]
          /\ Synthesized(j) =>
               jobResults'[j] =
                 IF jobs[j].description.t = "string"
                 THEN SuccessResult(jobs[j].title, jobs[j].description.s, jobs[j].transcript)
                 ELSE FailureResult
     /\ \A upload_id \in UploadIdSpace :
          StartJob(upload_id) =>
            /\ reply'.status = 200 /\ reply'.id \notin JobIds
            /\ reply'.id = Len(jobs') /\ Len(jobs') = Len(jobs) + 1]_vars

\* two URL jobs have run to the end of the Synthesizer and stored different
\* results
TwoJobsTwoResults ==
  /\ Len(jobs) = 2
  /\ \A j \in 1..2 : /\ jobs[j].source = "url" /\ jobs[j].pc = "done" /\ jobs[j].raisedAt = ""
                       /\ jobResults[j].present /\ jobResults[j] # FailureResult
  /\ jobResults[1] # jobResults[2]

\* the pipeline of job j is suspended at a network fetch
SuspendedAtFetch(j) == jobs[j].pc \in {"page", "watch", "vtt", "xml", "legacy"}

\* C17: start-job for a URL upload answers with the job id in the step that
\* leaves the pipeline suspended at its first fetch, with no result stored; and
\* in every state in which some pipeline is suspended at a fetch, for however
\* long, status and get-recipe for every job id and start-job for every upload
\* id are enabled (as long as the modelled numbers of requests and jobs are not
\* used up).
HandlersNeverWait ==
  /\ [](\A j \in JobIds :
         SuspendedAtFetch(j) /\ nreq < MaxRequests =>
           /\ \A job_id \in JobIdSpace : ENABLED GetStatus(job_id) /\ ENABLED GetResult(job_id)
           /\ Len(jobs) < MaxJobs => \A upload_id \in UploadIdSpace : ENABLED StartJob(upload_id))
  /\ [][\A upload_id \in 1..Len(uploads) :
         StartJob(upload_id) /\ uploads[upload_id].source_type = "url" =>
           /\ reply'.status = 200 /\ reply'.id = Len(jobs')
           /\ jobs'[reply'.id].pc = "page" /\ ~jobResults'[reply'.id].present]_vars

\* a second URL job has been started while the first was suspended at its first
\* fetch
StartedWhileSuspended ==
  /\ Len(jobs) = 2 /\ jobs[1].pc = "page" /\ jobs[2].pc = "page"
  /\ reply.op = "start-job" /\ reply.status = 200 /\ reply.id = 2

\* the order of the legacy language codes
LegacyOrder == <<"en", "en-US", "en-GB", "es", "es-419">>

\* C18: in the Transcript Retriever the cue-based request for a caption track
\* follows the watch page, the request for the same track without the format
\* hint follows the cue-based one, and the first legacy request follows one of
\* these three without a transcript returned; the legacy requests ask for en,
\* en-US, en-GB, es, es-419 in this order, one after the other; a request that
\* yields the transcript is the last one, and no request follows the return.
RetrieverOrder ==
  /\ [](\A j \in JobIds :
         jobs[j].pc = "legacy" =>
           /\ jobs[j].lang \in 1..5
           /\ PendingFetch(j) =
                "https://www.youtube.com/api/timedtext?lang=" \o LegacyOrder[jobs[j].lang]
                  \o "&v=abc123xyz")
  /\ [][\A j \in JobIds :
         jobs'[j] # jobs[j] =>
           /\ jobs'[j].pc = "vtt" => jobs[j].pc = "watch" /\ jobs'[j].baseUrl # ""
           /\ jobs'[j].pc = "xml" =>
                /\ jobs[j].pc = "vtt" /\ jobs'[j].baseUrl = jobs[j].baseUrl
                /\ PendingFetch(j) \in {PendingFetch(j)' \o "&fmt=vtt", PendingFetch(j)' \o "?fmt=vtt"}
           /\ jobs'[j].pc = "legacy" =>
                /\ ~jobs'[j].trReturned /\ jobs'[j].transcript = ""
                /\ IF jobs[j].pc = "legacy" THEN jobs'[j].lang = jobs[j].lang + 1
                   ELSE jobs[j].pc \in {"watch", "vtt", "xml"} /\ jobs'[j].lang = 1
           /\ jobs[j].pc \in {"vtt", "xml", "legacy"} /\ jobs'[j].transcript # "" =>
                jobs'[j].pc = "synth" /\ jobs'[j].trReturned
           /\ jobs[j].trReturned => ~SuspendedAtFetch(j)']_vars

\* the third legacy request, for en-GB, is pending
ThirdLegacyAttempt ==
  \E j \in JobIds :
    /\ jobs[j].pc = "legacy" /\ jobs[j].lang = 3
    /\ PendingFetch(j) = "https://www.youtube.com/api/timedtext?lang=en-GB&v=abc123xyz"

\* C19: the event stream does not depend on the jobs.  A subscription can be
\* opened for every job id, created or not, and starts the same; whatever the
\* jobs and the result store hold, the timer of a subscription whose interval is
\* set can fire, and what it sends is the next of the seven events; sending
\* changes neither a job nor the store.  So "completed" is sent whether or not
\* the result is there.
StreamIgnoresJobs ==
  /\ [](\A s \in SubIds : subs[s].interval => ENABLED Tick(s))
  /\ [](nreq < MaxRequests /\ Len(subs) < MaxSubs =>
          \A job_id \in JobIdSpace : ENABLED StreamEvents(job_id))
  /\ [][/\ \A job_id \in JobIdSpace :
            StreamEvents(job_id) =>
              subs'[Len(subs')] = [i |-> 0, interval |-> TRUE, endTimer |-> "none",
                                   conn |-> "open", out |-> <<>>]
       /\ \A s \in SubIds :
            subs'[s].out # subs[s].out =>
              /\ subs'[s].out = Append(subs[s].out, ExpectedEvents[Len(subs[s].out) + 1])
              /\ UNCHANGED <<jobs, jobResults>>]_vars

\* "completed" has been sent on a subscription while the only job, a URL job, is
\* still suspended at its first fetch and has no result
CompletedBeforeResult ==
  /\ Len(jobs) = 1 /\ jobs[1].pc = "page" /\ ~jobResults[1].present
  /\ \E s \in SubIds :
       /\ Len(subs[s].out) = 7
       /\ subs[s].out[7] = [event |-> "completed", data |-> [state |-> "completed"]]

\* the text the steps of job j are extracted from: the transcript, or the
\* description when the transcript is empty
StepSource(j) ==
  IF jobs[j].transcript # "" THEN jobs[j].transcript ELSE jobs[j].description.s

\* with sole as the step of a text without a cue word: the steps come from the
\* transcript when it is not empty and from the description otherwise; a text
\* without sentences gives the generic placeholder, a text whose sentences hold
\* no cue word gives sole(first sentence), and two empty texts give the review
\* placeholder, each as the only step
StepsFallBack(j, sole(_)) ==
  LET sentences == Sentences(StepSource(j))
      cued == CuePositions(sentences)
      texts == StoredStepTexts(jobResults'[j])
  IN IF StepSource(j) = "" THEN texts = <<"Review ingredients and steps from the video.">>
     ELSE IF sentences = <<>> THEN texts = <<"Follow the video steps.">>
     ELSE IF cued = {} THEN texts = <<sole(sentences[1])>>
     ELSE /\ Len(texts) = (IF Cardinality(cued) < 12 THEN Cardinality(cued) ELSE 12)
          /\ \A k \in 1..Len(texts) : IsNormalised(texts[k], sentences[KthOf(cued, k)])

Verbatim(sentence) == sentence
FirstLetterRaised(sentence) ==
  IF Head(sentence) \in LowerLetters THEN UpperOf(Head(sentence)) \o Tail(sentence)
  ELSE sentence

\* C20 as stated: the steps come from the transcript when it is not empty and
\* from the description otherwise; when no sentence of that text holds a cue word
\* the only step is the first sentence, unchanged, or the generic placeholder
\* when there is no sentence; when both texts are empty the only step is the
\* review placeholder.
FallbackStepIsVerbatim ==
  [][\A j \in JobIds : Synthesized(j) => StepsFallBack(j, Verbatim)]_vars

\* C20 as amended: the same, with the first sentence as the only step after its
\* first character, when it is a lowercase letter a-z, is put in upper case.
FallbackStepIsCapitalised ==
  [][\A j \in JobIds : Synthesized(j) => StepsFallBack(j, FirstLetterRaised)]_vars

\* a description without a cue word, under an empty transcript, has given its
\* first sentence with the first letter raised as the only step
LowercaseSentenceRaised ==
  \E j \in JobIds :
    /\ jobs[j].pc = "done" /\ jobResults[j].present
    /\ jobResults[j].recipe_json.steps = <<[n |-> 1, text |-> "Wash hands."]>>
    /\ Len(jobResults[j].recipe_json.ingredients) = 1

\* the client has handled the "completed" event of its stream (lines 411-413)
CompletedHandled == client.es = "closed"

\* the result of the client's job is in the store
ClientResultStored ==
  IF client.jobId = 0 THEN FALSE ELSE jobResults[client.jobId].present

\* C21: under FairClientSpec (every request is answered, every timer fires),
\* once the client has handled "completed" and the result of its job is stored,
\* the client eventually has the recipe on display; it asks again only after a
\* not-ready answer, and after the first successful answer it asks no more.
ClientGetsResult ==
  /\ (CompletedHandled /\ ClientResultStored) ~> (client.phase = "shown")
  /\ [][/\ client.phase = "get-recipe" /\ client'.phase = "retry" => reply'.status = 425
        /\ client.phase = "shown" => client'.phase = "shown" /\ client'.recipe = client.recipe]_vars

\* C22: from the handling of "completed" on, the state the client displays is
\* "completed", whatever responses and events arrive afterwards.
CompletedStaysDisplayed ==
  CompletedHandled => client.state = "completed"


====
